---- MODULE Spec2Model ----
(***************************************************************************)
(* Model of src/lib/helpers/engine.ts: the Engine class (a wrapper around  *)
(* a jsforce connection) and the static CacheProvider it memoizes in.      *)
(*                                                                         *)
(* Strings are sequences of one-character strings, so that key building   *)
(* (`con:${username}`) is real concatenation and toLowerCase is computed   *)
(* character by character.  Every JavaScript value is a record with a tag  *)
(* field t.                                                                *)
(***************************************************************************)
EXTENDS Integers, Sequences, FiniteSets, TLC

VARIABLES
    cacheData,   \* CacheProvider.cacheData: its own properties, key -> value
    cacheProto,  \* the [[Prototype]] of the cacheData object
    lastCall,    \* the last direct CacheProvider call and its outcome
    lastOp,      \* per key, the last direct setCache/deleteCache on it
    engines,     \* the `new Engine(environment)` evaluations so far
    conns,       \* the jsforce.Connection objects created so far
    calls,       \* the public Engine method calls, in the order they started
    lastLogin    \* the argument of the most recently entered login()

vars == <<cacheData, cacheProto, lastCall, lastOp, engines, conns, calls, lastLogin>>

\* ------------------------------------------------------------ bounds
MaxCalls == 3
MaxEngines == 1
MaxCacheOps == 4

\* ------------------------------------------------------------ values
Undefined == [t |-> "undefined"]
Null == [t |-> "null"]
Str(s) == [t |-> "string", s |-> s]
\* A plain object literal: no own properties, prototype Object.prototype.
PlainObject == [t |-> "object"]
\* A member inherited from Object.prototype (a function or accessor result).
Builtin(k) == [t |-> "builtin", name |-> k]
ObjectPrototype == [t |-> "Object.prototype"]
TypeError == [t |-> "TypeError"]

\* ------------------------------------------------------------ strings
sCurrentCredentials ==
    <<"c","u","r","r","e","n","t","C","r","e","d","e","n","t","i","a","l","s">>
sCon == <<"c","o","n",":">>
sObjectList == <<"o","b","j","e","c","t","L","i","s","t",":">>
sObjectFields == <<"o","b","j","e","c","t","F","i","e","l","d","s",":">>
sObjectInfo == <<"o","b","j","e","c","t","I","n","f","o",":">>
sColon == <<":">>
sProduction == <<"p","r","o","d","u","c","t","i","o","n">>
sSandbox == <<"s","a","n","d","b","o","x">>
sToString == <<"t","o","S","t","r","i","n","g">>
sHasOwnProperty == <<"h","a","s","O","w","n","P","r","o","p","e","r","t","y">>
sProto == <<"_","_","p","r","o","t","o","_","_">>
sProductionUrl == <<"h","t","t","p","s",":","/","/","l","o","g","i","n",".",
    "s","a","l","e","s","f","o","r","c","e",".","c","o","m","/">>
sSandboxUrl == <<"h","t","t","p","s",":","/","/","t","e","s","t",".",
    "s","a","l","e","s","f","o","r","c","e",".","c","o","m","/">>

\* ------------------------------------------------------ CacheProvider
\* The names every object inherits from Object.prototype (those the model's
\* keys can collide with).
ObjectPrototypeKeys == {sToString, sHasOwnProperty, sProto}

\* Whether the prototype chain of an object with prototype proto reaches
\* Object.prototype.
Inherits(proto) == proto \in {ObjectPrototype, PlainObject}

\* Property lookup obj[key] on an object with the given own properties and
\* prototype: own property first, then the chain.
Lookup(own, proto, key) ==
    IF key \in DOMAIN own THEN own[key]
    ELSE IF Inherits(proto) /\ key = sProto THEN proto
    ELSE IF Inherits(proto) /\ key \in ObjectPrototypeKeys THEN Builtin(key)
    ELSE Undefined

getCache(key) == Lookup(cacheData, cacheProto, key)

\* this.cacheData.hasOwnProperty(key) throws when the looked-up member is
\* not callable.
hasCacheThrows ==
    Lookup(cacheData, cacheProto, sHasOwnProperty) # Builtin(sHasOwnProperty)

hasCache(key) == key \in DOMAIN cacheData

\* getCache and hasCache read after the setCache of the same step.
getCacheAfter(key) == Lookup(cacheData', cacheProto', key)
hasCacheAfter(key) == key \in DOMAIN cacheData'

\* The object after the assignment this.cacheData[key] = data.
AssignOwn(key, data) ==
    [x \in DOMAIN cacheData \cup {key} |-> IF x = key THEN data ELSE cacheData[x]]

\* this.cacheData[key] = data; "__proto__" is an accessor of Object.prototype
\* whose setter replaces the prototype (objects and null) or does nothing.
setCache(key, data) ==
    IF key = sProto /\ Inherits(cacheProto)
    THEN /\ cacheProto' = IF data \in {PlainObject, Null} THEN data ELSE cacheProto
         /\ UNCHANGED cacheData
    ELSE /\ cacheData' = AssignOwn(key, data)
         /\ UNCHANGED cacheProto

\* delete this.cacheData[key], guarded by hasCache(key).
deleteCache(key) ==
    /\ cacheData' = IF hasCache(key)
                    THEN [x \in DOMAIN cacheData \ {key} |-> cacheData[x]]
                    ELSE cacheData
    /\ UNCHANGED cacheProto

\* ------------------------------------------- direct CacheProvider use
CacheKeys == {<<"k">>, sToString, sHasOwnProperty, sProto}
CacheValues == {Str(<<"v">>), Str(<<"w">>), PlainObject, Null}

NoCall == [op |-> "none", key |-> <<>>, result |-> Undefined, threw |-> FALSE, n |-> 0]
NoOp == [op |-> "none", data |-> Undefined]

EngineVars == <<engines, conns, calls, lastLogin>>

SetCacheOp(key, data) ==
    /\ lastCall.n < MaxCacheOps
    /\ setCache(key, data)
    /\ lastCall' = [op |-> "setCache", key |-> key, result |-> Undefined,
                    threw |-> FALSE, n |-> lastCall.n + 1]
    /\ lastOp' = [lastOp EXCEPT ![key] = [op |-> "set", data |-> data]]
    /\ UNCHANGED EngineVars

DeleteCacheOp(key) ==
    /\ lastCall.n < MaxCacheOps
    /\ IF hasCacheThrows
       THEN UNCHANGED <<cacheData, cacheProto>>
       ELSE deleteCache(key)
    /\ lastCall' = [op |-> "deleteCache", key |-> key, result |-> Undefined,
                    threw |-> hasCacheThrows, n |-> lastCall.n + 1]
    /\ lastOp' = [lastOp EXCEPT ![key] = [op |-> "delete", data |-> Undefined]]
    /\ UNCHANGED EngineVars

HasCacheOp(key) ==
    /\ lastCall.n < MaxCacheOps
    /\ lastCall' = [op |-> "hasCache", key |-> key,
                    result |-> IF hasCacheThrows THEN TypeError
                               ELSE [t |-> "boolean", b |-> hasCache(key)],
                    threw |-> hasCacheThrows, n |-> lastCall.n + 1]
    /\ UNCHANGED <<cacheData, cacheProto, lastOp>>
    /\ UNCHANGED EngineVars

GetCacheOp(key) ==
    /\ lastCall.n < MaxCacheOps
    /\ lastCall' = [op |-> "getCache", key |-> key, result |-> getCache(key),
                    threw |-> FALSE, n |-> lastCall.n + 1]
    /\ UNCHANGED <<cacheData, cacheProto, lastOp>>
    /\ UNCHANGED EngineVars

Init ==
    /\ cacheData = [x \in {} |-> Undefined]
    /\ cacheProto = ObjectPrototype
    /\ lastCall = NoCall
    /\ lastOp = [k \in CacheKeys |-> NoOp]
    /\ engines = <<>>
    /\ conns = <<>>
    /\ calls = <<>>
    /\ lastLogin = Undefined

NextCache ==
    \/ \E key \in CacheKeys, data \in CacheValues : SetCacheOp(key, data)
    \/ \E key \in CacheKeys : DeleteCacheOp(key)
    \/ \E key \in CacheKeys : HasCacheOp(key)
    \/ \E key \in CacheKeys : GetCacheOp(key)

SpecCache == Init /\ [][NextCache]_vars


\* ------------------------------------------------------------ inputs
Usernames == {<<"a">>, <<"b">>}
Passwords == {<<"p">>, <<"q">>}
Credentials ==
    {[t |-> "credential", username |-> u, password |-> p] :
        u \in Usernames, p \in Passwords}
ObjectNames == {<<"A">>, <<"B">>}
Queries == {<<"s","1">>, <<"s","2">>}
Environments ==
    {<<"P","r","o","d","u","c","t","i","o","n">>, sSandbox,
     <<"s","t","a","g","i","n","g">>, <<>>}

\* ------------------------------------------------------- constructor
UpperCase == <<"A","B","C","D","E","F","G","H","I","J","K","L","M",
               "N","O","P","Q","R","S","T","U","V","W","X","Y","Z">>
LowerCase == <<"a","b","c","d","e","f","g","h","i","j","k","l","m",
               "n","o","p","q","r","s","t","u","v","w","x","y","z">>

\* String.prototype.toLowerCase on the model's alphabet.
toLowerCase(s) ==
    [i \in DOMAIN s |->
        IF \E j \in DOMAIN UpperCase : UpperCase[j] = s[i]
        THEN LowerCase[CHOOSE j \in DOMAIN UpperCase : UpperCase[j] = s[i]]
        ELSE s[i]]

EngineCaseSensitive(environment) ==
    IF environment # sProduction /\ environment # sSandbox
    THEN [environment |-> environment, threw |-> TRUE, defaultLoginUrl |-> Undefined]
    ELSE IF environment = sProduction
    THEN [environment |-> environment, threw |-> FALSE,
          defaultLoginUrl |-> Str(sProductionUrl)]
    ELSE [environment |-> environment, threw |-> FALSE,
          defaultLoginUrl |-> Str(sSandboxUrl)]

\* The outcome of `new Engine(environment)`: an instance, or the throw.
Engine(environment) ==
    IF toLowerCase(environment) # sProduction /\ toLowerCase(environment) # sSandbox
    THEN [environment |-> environment, threw |-> TRUE, defaultLoginUrl |-> Undefined]
    ELSE IF toLowerCase(environment) = sProduction
    THEN [environment |-> environment, threw |-> FALSE,
          defaultLoginUrl |-> Str(sProductionUrl)]
    ELSE [environment |-> environment, threw |-> FALSE,
          defaultLoginUrl |-> Str(sSandboxUrl)]

CacheVars == <<cacheData, cacheProto>>
DirectVars == <<lastCall, lastOp>>

constructor(environment) ==
    /\ Len(engines) < MaxEngines
    /\ engines' = Append(engines, Engine(environment))
    /\ UNCHANGED <<CacheVars, DirectVars, conns, calls, lastLogin>>

\* ---------------------------------------------------------- provider
\* The user id the provider reports for a username.
UserIdOf(username) == <<"0","0","5">> \o username

\* new jsforce.Connection({loginUrl}).
Connection(loginUrl) ==
    [loginUrl |-> loginUrl, userInfo |-> Undefined,
     accessToken |-> Undefined, instanceUrl |-> Undefined]

\* The connection after the provider accepted conn.login(username, ...).
LoggedIn(conn, username) ==
    [conn EXCEPT !.userInfo = [t |-> "userInfo", id |-> UserIdOf(username)],
                 !.accessToken = [t |-> "token", user |-> username],
                 !.instanceUrl = [t |-> "instance", user |-> username]]

ProviderError == [t |-> "Error"]
ConnRef(n) == [t |-> "conn", ref |-> n]

\* What the provider hands to a callback: (err, res).
Failure == [err |-> ProviderError, res |-> Undefined]
Success(res) == [err |-> Null, res |-> res]

DescribeGlobalResult(conn) ==
    [t |-> "DescribeGlobalResult",
     sobjects |-> [t |-> "sobjects", org |-> conn.userInfo.id]]
DescribeSObjectResult(conn, objectName) ==
    [t |-> "DescribeSObjectResult", name |-> objectName, org |-> conn.userInfo,
     fields |-> [t |-> "fields", name |-> objectName, org |-> conn.userInfo]]
QueryResult(conn, soql) == [t |-> "QueryResult", soql |-> soql, org |-> conn.userInfo]
\* Save results: one record's result carries success; an array of results
\* carries no success field of its own.
SaveResult(ok) == [t |-> "SaveResult", success |-> [t |-> "boolean", b |-> ok]]
SaveResults ==
    [t |-> "SaveResultArray", items |-> <<SaveResult(TRUE)>>, success |-> Undefined]
MutationResponses ==
    {Failure, Success(SaveResult(TRUE)), Success(SaveResult(FALSE)), Success(SaveResults)}

\* JavaScript truthiness of the values the callbacks test.
Truthy(v) ==
    /\ v \notin {Undefined, Null}
    /\ v # [t |-> "boolean", b |-> FALSE]

\* ----------------------------------------------------------- promises
Pending == [state |-> "pending", value |-> Undefined]
\* resolve(value) / reject(value): a settled promise ignores later calls.
resolve(p, value) ==
    IF p.state = "pending" THEN [state |-> "fulfilled", value |-> value] ELSE p
reject(p, value) ==
    IF p.state = "pending" THEN [state |-> "rejected", value |-> value] ELSE p

\* ------------------------------------------------------------- calls
Done == {i \in DOMAIN calls : calls[i].pc = "done"}

NewCall(e, op, credential) ==
    [op |-> op, eng |-> e, cred |-> credential,
     objectName |-> Undefined, query |-> Undefined, records |-> Undefined,
     pc |-> "start", conn |-> Undefined, connects |-> 0,
     key |-> Undefined, reqs |-> <<>>, resp |-> Undefined,
     result |-> Pending, doneBefore |-> Done]

Usable(e) == e \in DOMAIN engines /\ ~engines[e].threw

LoginEnterCredentialOnConnect(c, credential) ==
    /\ lastLogin' = credential
    /\ IF credential = Undefined
       THEN /\ UNCHANGED <<CacheVars, conns>>
            /\ calls' = Append(calls,
                 [c EXCEPT !.pc = "done", !.result = reject(Pending, TypeError)])
       ELSE LET userKey == sCon \o credential.username IN
            IF ~hasCache(userKey)
            THEN /\ setCache(sCurrentCredentials, credential)
                 /\ conns' = Append(conns,
                               Connection(engines[c.eng].defaultLoginUrl))
                 /\ calls' = Append(calls,
                      [c EXCEPT !.pc = "connecting",
                                !.conn = ConnRef(Len(conns) + 1),
                                !.connects = c.connects + 1])
            ELSE /\ UNCHANGED <<CacheVars, conns>>
                 /\ calls' = Append(calls,
                      IF c.op = "login"
                      THEN [c EXCEPT !.pc = "done",
                                     !.conn = getCache(userKey),
                                     !.result = resolve(Pending, getCache(userKey))]
                      ELSE [c EXCEPT !.pc = "loggedIn",
                                     !.conn = getCache(userKey)])

\* Engine.login up to its first suspension (lines 33-40, or to line 51 when
\* the session is cached), entered by call c with the given credential.
LoginEnter(c, credential) ==
    /\ lastLogin' = credential
    /\ IF credential = Undefined
       THEN \* credential.username throws a TypeError (line 34)
            /\ UNCHANGED <<CacheVars, conns>>
            /\ calls' = Append(calls,
                 [c EXCEPT !.pc = "done", !.result = reject(Pending, TypeError)])
       ELSE LET userKey == sCon \o credential.username IN
            /\ setCache(sCurrentCredentials, credential)
            /\ IF ~hasCacheAfter(userKey)
               THEN /\ conns' = Append(conns,
                                  Connection(engines[c.eng].defaultLoginUrl))
                    /\ calls' = Append(calls,
                         [c EXCEPT !.pc = "connecting",
                                   !.conn = ConnRef(Len(conns) + 1),
                                   !.connects = c.connects + 1])
               ELSE /\ UNCHANGED conns
                    /\ calls' = Append(calls,
                         IF c.op = "login"
                         THEN [c EXCEPT !.pc = "done",
                                        !.conn = getCacheAfter(userKey),
                                        !.result = resolve(Pending, getCacheAfter(userKey))]
                         ELSE [c EXCEPT !.pc = "loggedIn",
                                        !.conn = getCacheAfter(userKey)])

Enter(c, credential) ==
    /\ Len(calls) < MaxCalls
    /\ Usable(c.eng)
    /\ LoginEnter(c, credential)
    /\ UNCHANGED <<DirectVars, engines>>

login(e, credential) == Enter(NewCall(e, "login", credential), credential)

getLoginUrlDefaultCredential(e) ==
    LET credential ==
            IF getCache(sCurrentCredentials) = Undefined
            THEN [t |-> "credential", username |-> <<>>, password |-> <<>>]
            ELSE getCache(sCurrentCredentials)
    IN Enter(NewCall(e, "getLoginUrl", credential), credential)

getLoginUrl(e) ==
    Enter(NewCall(e, "getLoginUrl", getCache(sCurrentCredentials)),
          getCache(sCurrentCredentials))

getAllObject(e) ==
    Enter(NewCall(e, "getAllObject", getCache(sCurrentCredentials)),
          getCache(sCurrentCredentials))

getAllFields(e, objectName) ==
    Enter([NewCall(e, "getAllFields", getCache(sCurrentCredentials))
             EXCEPT !.objectName = Str(objectName)],
          getCache(sCurrentCredentials))

describeObject(e, objectName) ==
    Enter([NewCall(e, "describeObject", getCache(sCurrentCredentials))
             EXCEPT !.objectName = Str(objectName)],
          getCache(sCurrentCredentials))

query(e, soql) ==
    Enter([NewCall(e, "query", getCache(sCurrentCredentials))
             EXCEPT !.query = Str(soql)],
          getCache(sCurrentCredentials))

\* Variant of LoginResume that keeps an entry that is already there (the first
\* write wins).
LoginResumeFirstWins(i, ok) ==
    /\ i \in DOMAIN calls
    /\ calls[i].pc = "connecting"
    /\ LET c == calls[i]
           userKey == sCon \o c.cred.username
       IN /\ conns' = [conns EXCEPT ![c.conn.ref] =
                          IF ok THEN LoggedIn(@, c.cred.username) ELSE @]
          /\ IF hasCache(userKey) THEN UNCHANGED CacheVars
                                  ELSE setCache(userKey, c.conn)
          /\ calls' = [calls EXCEPT ![i] =
                IF c.op = "login"
                THEN [c EXCEPT !.pc = "done",
                               !.conn = getCacheAfter(userKey),
                               !.result = resolve(Pending, getCacheAfter(userKey))]
                ELSE [c EXCEPT !.pc = "loggedIn",
                               !.conn = getCacheAfter(userKey)]]
    /\ UNCHANGED <<DirectVars, engines, lastLogin>>

\* Variant of LoginResume in which a failed connect makes the awaited call
\* throw: nothing is stored and the method rejects with the provider's error.
LoginResumeRejects(i, ok) ==
    /\ i \in DOMAIN calls
    /\ calls[i].pc = "connecting"
    /\ LET c == calls[i]
           userKey == sCon \o c.cred.username
       IN /\ conns' = [conns EXCEPT ![c.conn.ref] =
                          IF ok THEN LoggedIn(@, c.cred.username) ELSE @]
          /\ IF ok THEN setCache(userKey, c.conn) ELSE UNCHANGED CacheVars
          /\ calls' = [calls EXCEPT ![i] =
                IF ~ok
                THEN [c EXCEPT !.pc = "done",
                               !.result = reject(Pending, ProviderError)]
                ELSE IF c.op = "login"
                THEN [c EXCEPT !.pc = "done",
                               !.conn = getCacheAfter(userKey),
                               !.result = resolve(Pending, getCacheAfter(userKey))]
                ELSE [c EXCEPT !.pc = "loggedIn",
                               !.conn = getCacheAfter(userKey)]]
    /\ UNCHANGED <<DirectVars, engines, lastLogin>>

\* Variant of LoginResume that keeps one session at a time: storing the
\* connection drops the entries of the other usernames.
LoginResumeSingleSession(i, ok) ==
    /\ i \in DOMAIN calls
    /\ calls[i].pc = "connecting"
    /\ LET c == calls[i]
           userKey == sCon \o c.cred.username
           kept == {k \in DOMAIN cacheData :
                      ~(Len(k) >= Len(sCon) /\ SubSeq(k, 1, Len(sCon)) = sCon)}
       IN /\ conns' = [conns EXCEPT ![c.conn.ref] =
                          IF ok THEN LoggedIn(@, c.cred.username) ELSE @]
          /\ cacheData' = [k \in kept \cup {userKey} |->
                             IF k = userKey THEN c.conn ELSE cacheData[k]]
          /\ UNCHANGED cacheProto
          /\ calls' = [calls EXCEPT ![i] =
                IF c.op = "login"
                THEN [c EXCEPT !.pc = "done",
                               !.conn = getCacheAfter(userKey),
                               !.result = resolve(Pending, getCacheAfter(userKey))]
                ELSE [c EXCEPT !.pc = "loggedIn",
                               !.conn = getCacheAfter(userKey)]]
    /\ UNCHANGED <<DirectVars, engines, lastLogin>>

\* Variant of LoginResume that makes its credential current again when the
\* connect completes.
LoginResumeRestoresCredential(i, ok) ==
    /\ i \in DOMAIN calls
    /\ calls[i].pc = "connecting"
    /\ LET c == calls[i]
           userKey == sCon \o c.cred.username
       IN /\ conns' = [conns EXCEPT ![c.conn.ref] =
                          IF ok THEN LoggedIn(@, c.cred.username) ELSE @]
          /\ cacheData' = [k \in DOMAIN cacheData \cup {userKey, sCurrentCredentials} |->
                             IF k = userKey THEN c.conn
                             ELSE IF k = sCurrentCredentials THEN c.cred
                             ELSE cacheData[k]]
          /\ UNCHANGED cacheProto
          /\ calls' = [calls EXCEPT ![i] =
                IF c.op = "login"
                THEN [c EXCEPT !.pc = "done",
                               !.conn = getCacheAfter(userKey),
                               !.result = resolve(Pending, getCacheAfter(userKey))]
                ELSE [c EXCEPT !.pc = "loggedIn",
                               !.conn = getCacheAfter(userKey)]]
    /\ UNCHANGED <<DirectVars, engines, lastLogin>>

\* The provider answers conn.login (lines 40-48): an error goes to the
\* callback, which logs it, and the awaited call completes either way; login
\* resumes at line 49 and stores the connection, logged in or not.
LoginResume(i, ok) ==
    /\ i \in DOMAIN calls
    /\ calls[i].pc = "connecting"
    /\ LET c == calls[i]
           userKey == sCon \o c.cred.username
       IN /\ conns' = [conns EXCEPT ![c.conn.ref] =
                          IF ok THEN LoggedIn(@, c.cred.username) ELSE @]
          /\ setCache(userKey, c.conn)
          /\ calls' = [calls EXCEPT ![i] =
                IF c.op = "login"
                THEN [c EXCEPT !.pc = "done",
                               !.conn = getCacheAfter(userKey),
                               !.result = resolve(Pending, getCacheAfter(userKey))]
                ELSE [c EXCEPT !.pc = "loggedIn",
                               !.conn = getCacheAfter(userKey)]]
    /\ UNCHANGED <<DirectVars, engines, lastLogin>>

\* The records argument: one record or an array of records, as the caller
\* chooses; the methods pass it to the provider untouched.
RecordArgs == {[t |-> "records"]}

insert(e, records) ==
    Enter([NewCall(e, "insert", getCache(sCurrentCredentials))
             EXCEPT !.records = records],
          getCache(sCurrentCredentials))

update(e, records) ==
    Enter([NewCall(e, "update", getCache(sCurrentCredentials))
             EXCEPT !.records = records],
          getCache(sCurrentCredentials))

upsert(e, records) ==
    Enter([NewCall(e, "upsert", getCache(sCurrentCredentials))
             EXCEPT !.records = records],
          getCache(sCurrentCredentials))

delete(e, records) ==
    Enter([NewCall(e, "delete", getCache(sCurrentCredentials))
             EXCEPT !.records = records],
          getCache(sCurrentCredentials))

\* A provider request issued by a call on a connection.
Request(kind, conn, arg) == [kind |-> kind, conn |-> conn, arg |-> arg]

Finish(c, promise) == [c EXCEPT !.pc = "done", !.result = promise]
Issue(c, request) == [c EXCEPT !.pc = "requested", !.reqs = Append(@, request)]

\* getLoginUrl after `await this.login(...)` (line 60).
getLoginUrlResume(c) ==
    Finish(c, resolve(c.result,
        [t |-> "url", instanceUrl |-> conns[c.conn.ref].instanceUrl,
         sid |-> conns[c.conn.ref].accessToken]))

\* The describe methods after `await this.login(...)`: the key is built from
\* conn.userInfo.id, which throws a TypeError when userInfo is undefined;
\* then the cached value, or a describe request (lines 69-79, 89-99, 109-119).
DescribeKey(c, id) ==
    IF c.op = "getAllObject" THEN sObjectList \o id
    ELSE IF c.op = "getAllFields" THEN sObjectFields \o c.objectName.s \o sColon \o id
    ELSE sObjectInfo \o c.objectName.s \o sColon \o id

\* Variant of describeResume that takes the user id of the key from the
\* credential that is current when the key is built.
describeResumeCurrentUser(c) ==
    IF conns[c.conn.ref].userInfo = Undefined
    THEN Finish(c, reject(c.result, TypeError))
    ELSE LET key == DescribeKey(c, UserIdOf(getCache(sCurrentCredentials).username)) IN
         IF ~hasCache(key)
         THEN Issue([c EXCEPT !.key = Str(key)],
                    Request(IF c.op = "getAllObject" THEN "describeGlobal" ELSE "describe",
                            c.conn, c.objectName))
         ELSE Finish([c EXCEPT !.key = Str(key)], resolve(c.result, getCache(key)))

describeResume(c) ==
    IF conns[c.conn.ref].userInfo = Undefined
    THEN Finish(c, reject(c.result, TypeError))
    ELSE LET key == DescribeKey(c, conns[c.conn.ref].userInfo.id) IN
         IF ~hasCache(key)
         THEN Issue([c EXCEPT !.key = Str(key)],
                    Request(IF c.op = "getAllObject" THEN "describeGlobal" ELSE "describe",
                            c.conn, c.objectName))
         ELSE Finish([c EXCEPT !.key = Str(key)], resolve(c.result, getCache(key)))

queryResumeMemoized(c) ==
    IF \E j \in DOMAIN calls :
          /\ calls[j].op = "query" /\ calls[j].query = c.query
          /\ calls[j].result.state = "fulfilled"
    THEN Finish(c, resolve(c.result,
            calls[CHOOSE j \in DOMAIN calls :
                    /\ calls[j].op = "query" /\ calls[j].query = c.query
                    /\ calls[j].result.state = "fulfilled"].result.value))
    ELSE Issue(c, Request("query", c.conn, c.query))

\* query after `await this.login(...)` (lines 129-130).
queryResume(c) == Issue(c, Request("query", c.conn, c.query))

\* insert/update/upsert/delete after `await this.login(...)`.
MutationKind(op) ==
    IF op = "insert" THEN "create"
    ELSE IF op = "update" THEN "update"
    ELSE IF op = "upsert" THEN "upsert"
    ELSE "destroy"

mutationResume(c) == Issue(c, Request(MutationKind(c.op), c.conn, c.records))

DescribeOps == {"getAllObject", "getAllFields", "describeObject"}
MutationOps == {"insert", "update", "upsert", "delete"}

\* The continuation of a method after its `await this.login(...)`.
Resume(i) ==
    /\ i \in DOMAIN calls
    /\ calls[i].pc = "loggedIn"
    /\ calls' = [calls EXCEPT ![i] =
          IF @.op = "getLoginUrl" THEN getLoginUrlResume(@)
          ELSE IF @.op \in DescribeOps THEN describeResume(@)
          ELSE IF @.op = "query" THEN queryResume(@)
          ELSE mutationResume(@)]
    /\ UNCHANGED <<CacheVars, DirectVars, engines, conns, lastLogin>>

\* The value a describe callback caches and resolves with: res.sobjects,
\* meta.fields or meta.
Described(c, res) ==
    IF c.op = "getAllObject" THEN res.sobjects
    ELSE IF c.op = "getAllFields" THEN res.fields
    ELSE res

\* The callbacks of conn.describeGlobal and conn.describe (lines 72-76,
\* 92-96, 112-116). On an error they reject and go on: getAllObject and
\* getAllFields then throw on reading a member of the undefined result,
\* before any setCache; describeObject reads no member, so it stores the
\* undefined result under its key (line 114).
DescribeCallback(i, ok) ==
    /\ i \in DOMAIN calls
    /\ calls[i].pc = "requested"
    /\ calls[i].op \in DescribeOps
    /\ LET c == calls[i]
           conn == conns[c.conn.ref]
           answer == IF ~ok THEN Failure
                     ELSE IF c.op = "getAllObject" THEN Success(DescribeGlobalResult(conn))
                     ELSE Success(DescribeSObjectResult(conn, c.objectName))
           rejected == IF Truthy(answer.err) THEN reject(c.result, answer.err)
                       ELSE c.result
       IN IF answer.res = Undefined /\ c.op # "describeObject"
          THEN /\ calls' = [calls EXCEPT ![i] =
                              [Finish(c, rejected) EXCEPT !.resp = answer]]
               /\ UNCHANGED CacheVars
          ELSE /\ calls' = [calls EXCEPT ![i] =
                              [Finish(c, resolve(rejected, Described(c, answer.res)))
                                 EXCEPT !.resp = answer]]
               /\ setCache(c.key.s, Described(c, answer.res))
    /\ UNCHANGED <<DirectVars, engines, conns, lastLogin>>

\* The callback of conn.query (lines 130-137); console.error returns
\* undefined, which becomes the rejection value.
QueryCallback(i, ok) ==
    /\ i \in DOMAIN calls
    /\ calls[i].pc = "requested"
    /\ calls[i].op = "query"
    /\ LET c == calls[i]
           answer == IF ok THEN Success(QueryResult(conns[c.conn.ref], c.query))
                     ELSE Failure
       IN calls' = [calls EXCEPT ![i] =
             [Finish(c, IF Truthy(answer.err)
                        THEN reject(c.result, Undefined)
                        ELSE resolve(c.result, answer.res))
                EXCEPT !.resp = answer]]
    /\ UNCHANGED <<CacheVars, DirectVars, engines, conns, lastLogin>>

SettleMutationErrOnly(p, err, ret) ==
    resolve(IF Truthy(err) THEN reject(p, err) ELSE p, ret)

\* if (err || !ret.success) { reject(err); } resolve(ret);
SettleMutation(p, err, ret) ==
    resolve(IF Truthy(err) \/ ~Truthy(ret.success) THEN reject(p, err) ELSE p, ret)

\* The callback of create/update/upsert/destroy (lines 150-153 and alike).
MutationCallback(i, answer) ==
    /\ i \in DOMAIN calls
    /\ calls[i].pc = "requested"
    /\ calls[i].op \in MutationOps
    /\ calls' = [calls EXCEPT ![i] =
          [Finish(@, SettleMutation(@.result, answer.err, answer.res))
             EXCEPT !.resp = answer]]
    /\ UNCHANGED <<CacheVars, DirectVars, engines, conns, lastLogin>>

Next ==
    \/ \E environment \in Environments : constructor(environment)
    \/ \E e \in DOMAIN engines, credential \in Credentials : login(e, credential)
    \/ \E e \in DOMAIN engines : getLoginUrl(e)
    \/ \E e \in DOMAIN engines : getAllObject(e)
    \/ \E e \in DOMAIN engines, o \in ObjectNames : getAllFields(e, o)
    \/ \E e \in DOMAIN engines, o \in ObjectNames : describeObject(e, o)
    \/ \E e \in DOMAIN engines, q \in Queries : query(e, q)
    \/ \E e \in DOMAIN engines, r \in RecordArgs : insert(e, r)
    \/ \E e \in DOMAIN engines, r \in RecordArgs : update(e, r)
    \/ \E e \in DOMAIN engines, r \in RecordArgs : upsert(e, r)
    \/ \E e \in DOMAIN engines, r \in RecordArgs : delete(e, r)
    \/ \E i \in DOMAIN calls, ok \in BOOLEAN : LoginResume(i, ok)
    \/ \E i \in DOMAIN calls : Resume(i)
    \/ \E i \in DOMAIN calls, ok \in BOOLEAN : DescribeCallback(i, ok)
    \/ \E i \in DOMAIN calls, ok \in BOOLEAN : QueryCallback(i, ok)
    \/ \E i \in DOMAIN calls, answer \in MutationResponses : MutationCallback(i, answer)

Spec == Init /\ [][Next]_vars

\* ------------------------------------------- two Engine instances
\* A program that has constructed one Engine for each environment and logs
\* in through both; CacheProvider.cacheData is static, so both use it.
TwoEngines == <<Engine(sProduction), Engine(sSandbox)>>

InitTwoEngines ==
    /\ cacheData = [x \in {} |-> Undefined]
    /\ cacheProto = ObjectPrototype
    /\ lastCall = NoCall
    /\ lastOp = [k \in CacheKeys |-> NoOp]
    /\ engines = TwoEngines
    /\ conns = <<>>
    /\ calls = <<>>
    /\ lastLogin = Undefined

NextTwoEngines ==
    \/ \E e \in DOMAIN engines, credential \in Credentials : login(e, credential)
    \/ \E i \in DOMAIN calls, ok \in BOOLEAN : LoginResume(i, ok)

SpecTwoEngines == InitTwoEngines /\ [][NextTwoEngines]_vars

\* ------------------------------------------------------------ claims
LoginCalls == {i \in DOMAIN calls : calls[i].op = "login"}
UsernameOf(i) == calls[i].cred.username
Returned(i) == calls[i].pc = "done" /\ calls[i].result.state = "fulfilled"

\* C1: if login({u,p1}) has completed and stored a session, a login({u,p2})
\* started afterwards issues no connect request and returns the identical
\* session handle that the first call returned.
C1_SecondLoginReusesFirstHandle ==
    \A i \in LoginCalls, j \in LoginCalls :
        ( /\ UsernameOf(i) = UsernameOf(j)
          /\ i \in calls[j].doneBefore
          /\ Returned(i)
          /\ hasCache(sCon \o UsernameOf(i)) )
        => /\ calls[j].connects = 0
           /\ Returned(j)
           /\ calls[j].result.value = calls[i].result.value

\* The connect requests issued so far for a username, by any method.
ConnectsFor(u) ==
    {i \in DOMAIN calls :
        /\ calls[i].cred # Undefined
        /\ calls[i].cred.username = u
        /\ calls[i].connects > 0}

\* C2: under every interleaving of public operations, at most one provider
\* connect request is issued for any one username.
C2_AtMostOneConnectPerUsername ==
    \A u \in Usernames : Cardinality(ConnectsFor(u)) <= 1

\* C3: once a login call for u has returned a handle, every login call for u
\* that starts afterwards returns the same handle.
C3_HandleNeverReplaced ==
    \A i \in LoginCalls, j \in LoginCalls :
        ( /\ UsernameOf(i) = UsernameOf(j)
          /\ Returned(i) /\ Returned(j)
          /\ i \in calls[j].doneBefore )
        => calls[j].result.value = calls[i].result.value

\* The calls that issued a describe request for the describe cache key.
DescribesFor(key) ==
    {j \in DOMAIN calls : calls[j].key = key /\ calls[j].reqs # <<>>}

\* C4: for getAllObject, getAllFields and describeObject and each cache key,
\* the provider receives exactly one describe request however often the
\* operation is called, overlapping calls and provider errors included.
C4_OneDescribePerKey ==
    \A i \in DOMAIN calls :
        (calls[i].op \in DescribeOps /\ calls[i].key # Undefined)
        => Cardinality(DescribesFor(calls[i].key)) = 1

\* C5: every login overwrites "currentCredentials" with the supplied
\* credential before it suspends, cached session or not, so the entry always
\* holds the credential of the most recently started login call.
C5_CurrentCredentialsIsLastLogin ==
    /\ calls # <<>> => getCache(sCurrentCredentials) = lastLogin
    /\ LoginCalls # {} =>
          getCache(sCurrentCredentials) =
              calls[CHOOSE i \in LoginCalls : \A j \in LoginCalls : j <= i].cred

\* A login for a username whose session was cached, with a credential other
\* than the one that established it, is the latest call.
C5_Witness ==
    \E i \in LoginCalls, j \in LoginCalls :
        /\ j < i /\ i = Len(calls)
        /\ UsernameOf(i) = UsernameOf(j)
        /\ calls[i].cred # calls[j].cred
        /\ calls[i].connects = 0
        /\ calls[i].pc = "done"
        /\ getCache(sCurrentCredentials) = calls[i].cred

\* The provider called back with no error and a result whose success is false.
SaidUnsuccessful(i) ==
    /\ calls[i].resp # Undefined
    /\ calls[i].resp.err = Null
    /\ calls[i].resp.res = SaveResult(FALSE)

\* C6: for insert, update, upsert and delete, a provider callback with no
\* error and a result whose success field is false rejects the promise.
C6_UnsuccessfulMutationRejects ==
    \A i \in DOMAIN calls :
        (calls[i].op \in MutationOps /\ SaidUnsuccessful(i))
        => calls[i].result.state = "rejected"

C6_Witness ==
    \E i \in DOMAIN calls, j \in DOMAIN calls :
        /\ calls[i].op = "insert" /\ SaidUnsuccessful(i)
        /\ calls[j].op = "delete" /\ SaidUnsuccessful(j)
        /\ calls[i].result.state = "rejected"
        /\ calls[j].result.state = "rejected"

\* The prefixes of the keys the Engine stores under, and the whole keys.
IsPrefix(p, k) == Len(p) <= Len(k) /\ SubSeq(k, 1, Len(p)) = p
EngineKey(k) ==
    \/ k = sCurrentCredentials
    \/ \E p \in {sCon, sObjectList, sObjectFields, sObjectInfo} : IsPrefix(p, k)

\* C7: with a credential set, every query(soql) issues exactly one provider
\* query request carrying that soql string, whatever queries came before,
\* and query neither reads nor writes a cache entry for query results.
C7_QueryNeverMemoized ==
    /\ \A i \in DOMAIN calls :
          (calls[i].op = "query" /\ calls[i].cred # Undefined) =>
             /\ calls[i].key = Undefined
             /\ IF calls[i].pc \in {"requested", "done"}
                THEN calls[i].reqs = <<Request("query", calls[i].conn, calls[i].query)>>
                ELSE calls[i].reqs = <<>>
    /\ \A k \in DOMAIN cacheData : EngineKey(k)

\* A query repeats the string of an earlier, fulfilled query and is sent again.
C7_Witness ==
    \E i \in DOMAIN calls, j \in DOMAIN calls :
        /\ calls[i].op = "query" /\ calls[j].op = "query"
        /\ calls[i].query = calls[j].query
        /\ calls[i].result.state = "fulfilled"
        /\ i \in calls[j].doneBefore
        /\ calls[j].pc = "done"
        /\ Len(calls[i].reqs) = 1 /\ Len(calls[j].reqs) = 1

\* C8: with no login ever made (no "currentCredentials" entry), getLoginUrl
\* fails (its login throws on the undefined credential), issues no provider
\* request and leaves the cache unchanged.
C8_GetLoginUrlUnauthenticated ==
    [][ ( /\ Len(calls') = Len(calls) + 1
          /\ calls'[Len(calls')].op = "getLoginUrl"
          /\ ~hasCache(sCurrentCredentials) )
        => /\ calls'[Len(calls')].pc = "done"
           /\ calls'[Len(calls')].result = reject(Pending, TypeError)
           /\ calls'[Len(calls')].connects = 0
           /\ calls'[Len(calls')].reqs = <<>>
           /\ UNCHANGED <<cacheData, cacheProto, conns>> ]_vars

C8_Witness ==
    \E i \in DOMAIN calls :
        /\ calls[i].op = "getLoginUrl"
        /\ calls[i].cred = Undefined
        /\ calls[i].result = reject(Pending, TypeError)
        /\ LoginCalls = {}
        /\ DOMAIN cacheData = {}

\* C9: a selector whose lower-cased form is "production" (resp. "sandbox")
\* constructs an Engine fixed to the production (resp. sandbox) URL; every
\* other string fails construction; construction neither writes to the
\* cache nor contacts the provider.
C9_ConstructorSelectsEndpoint ==
    /\ [](\A i \in DOMAIN engines :
            LET lowered == toLowerCase(engines[i].environment) IN
            /\ lowered = sProduction =>
                  /\ ~engines[i].threw
                  /\ engines[i].defaultLoginUrl = Str(sProductionUrl)
            /\ lowered = sSandbox =>
                  /\ ~engines[i].threw
                  /\ engines[i].defaultLoginUrl = Str(sSandboxUrl)
            /\ lowered \notin {sProduction, sSandbox} =>
                  /\ engines[i].threw
                  /\ engines[i].defaultLoginUrl = Undefined)
    /\ [][engines' # engines =>
            UNCHANGED <<cacheData, cacheProto, conns, calls>>]_vars

C9_Witness ==
    \E i \in DOMAIN engines :
        /\ engines[i].environment # toLowerCase(engines[i].environment)
        /\ toLowerCase(engines[i].environment) = sProduction
        /\ engines[i].defaultLoginUrl = Str(sProductionUrl)

\* The method activations that take a step: the one that starts, or the one
\* whose record changes.
Stepped(k) ==
    /\ k \in DOMAIN calls'
    /\ k \notin DOMAIN calls \/ calls'[k] # calls[k]

\* The activation k leaves line 40: the provider has answered its connect.
ConnectCompletes(k) ==
    /\ k \in DOMAIN calls
    /\ calls[k].pc = "connecting"
    /\ calls'[k].pc # "connecting"

UserKey(u) == sCon \o u

\* C11: a login for u that starts while nothing is stored under "con:"+u
\* (so also while an earlier login for u is still connecting) issues a
\* connect request of its own; the entry appears or changes only when the
\* connect of a call for u completes, and each completing call stores its own
\* handle, so after two racing calls the entry is the handle of the call
\* whose connect completed last.
C11_RacingLoginsLastWriteWins ==
    [][ /\ \A k \in DOMAIN calls' :
             /\ ( /\ k \notin DOMAIN calls
                  /\ calls'[k].cred # Undefined
                  /\ ~hasCache(UserKey(calls'[k].cred.username)) )
                => /\ calls'[k].connects = 1
                   /\ calls'[k].pc = "connecting"
             /\ ConnectCompletes(k)
                => getCacheAfter(UserKey(calls[k].cred.username)) = calls[k].conn
        /\ \A u \in Usernames :
             ( hasCacheAfter(UserKey(u)) /\
               ( ~hasCache(UserKey(u)) \/
                 getCacheAfter(UserKey(u)) # getCache(UserKey(u)) ) )
             => \E k \in DOMAIN calls :
                   ConnectCompletes(k) /\ calls[k].cred.username = u
      ]_vars

\* Two logins for one username have both connected and completed, and the
\* entry is the handle of the one that started first.
C11_Witness ==
    \E i, j \in LoginCalls :
        /\ i < j
        /\ i \notin calls[j].doneBefore
        /\ calls[i].pc = "done" /\ calls[j].pc = "done"
        /\ calls[i].connects = 1 /\ calls[j].connects = 1
        /\ UsernameOf(i) = UsernameOf(j)
        /\ calls[i].conn # calls[j].conn
        /\ getCache(UserKey(UsernameOf(i))) = calls[i].conn

\* The connect request of activation i was answered with an error: the
\* activation has left line 40 and its connection never received a userInfo.
ConnectFailed(i) ==
    /\ calls[i].connects = 1
    /\ calls[i].pc # "connecting"
    /\ calls[i].conn # Undefined
    /\ conns[calls[i].conn.ref].userInfo = Undefined

\* C12: an entry under "con:"+username is a session the provider reported
\* as established: after a login whose connect failed, nothing is stored
\* under the key.
C12_SessionStoredOnlyOnSuccess ==
    /\ \A u \in Usernames :
          hasCache(UserKey(u)) =>
             conns[getCache(UserKey(u)).ref].userInfo # Undefined
    /\ \A i \in LoginCalls :
          ( ConnectFailed(i) /\ Cardinality(ConnectsFor(UsernameOf(i))) = 1 )
          => ~hasCache(UserKey(UsernameOf(i)))

\* C13: when the provider answers a connect request with an error, a login
\* issued by the caller still fulfils, with the value held under
\* "con:"+username, and the login inside any other operation completes too:
\* the operation goes on with that value (it is past line 59/68/88/108/128/
\* 148) and is not rejected with the provider's login error.
C13_LoginFailureNotPropagated ==
    \A i \in DOMAIN calls :
        ConnectFailed(i) =>
           /\ calls[i].conn = getCache(UserKey(UsernameOf(i)))
              \/ Cardinality(ConnectsFor(UsernameOf(i))) > 1
           /\ calls[i].op = "login" =>
                 /\ Returned(i)
                 /\ calls[i].result.value = calls[i].conn
           /\ calls[i].op # "login" =>
                 /\ calls[i].pc \in {"loggedIn", "requested", "done"}
                 /\ calls[i].result.state = "rejected" =>
                       /\ calls[i].result.value # ProviderError \/ calls[i].reqs # <<>>
                       /\ calls[i].op \in DescribeOps \/ calls[i].reqs # <<>>

\* A login issued by the caller and a describe operation have both come
\* back from a connect request that the provider answered with an error.
C13_Witness ==
    /\ \E i \in LoginCalls : ConnectFailed(i) /\ Returned(i)
    /\ \E i \in DOMAIN calls :
          /\ calls[i].op \in DescribeOps
          /\ ConnectFailed(i)
          /\ calls[i].pc = "done"

DescribeCalls == {i \in DOMAIN calls : calls[i].op \in DescribeOps}

\* The keys of the describe results.
DescribeCacheKey(k) ==
    \E p \in {sObjectList, sObjectFields, sObjectInfo} : IsPrefix(p, k)

\* C14: a describe operation whose request the provider answered with an
\* error is rejected with that error, and every entry under a describe key
\* is the result that the provider delivered, without an error, to an
\* operation that asked under that key: an answer with an error writes
\* nothing.
C14_DescribeErrorRejectsAndCachesNothing ==
    /\ \A i \in DescribeCalls :
          calls[i].resp = Failure =>
             /\ calls[i].pc = "done"
             /\ calls[i].result = reject(Pending, calls[i].resp.err)
    /\ \A k \in DOMAIN cacheData :
          DescribeCacheKey(k) =>
             \E i \in DescribeCalls :
                /\ calls[i].key = Str(k)
                /\ calls[i].resp # Undefined
                /\ calls[i].resp.err = Null
                /\ cacheData[k] = Described(calls[i], calls[i].resp.res)

\* C15: a query whose request the provider answered with the error e is
\* rejected, and the rejection value is e.
C15_QueryRejectsWithProviderError ==
    \A i \in DOMAIN calls :
        (calls[i].op = "query" /\ calls[i].resp = Failure)
        => calls[i].result = reject(Pending, calls[i].resp.err)

\* The provider reported no error and saved every record: one result with
\* success = true, or an array of such results.
SavedAll(i) ==
    /\ calls[i].resp # Undefined
    /\ calls[i].resp.err = Null
    /\ \/ calls[i].resp.res = SaveResult(TRUE)
       \/ /\ calls[i].resp.res.t = "SaveResultArray"
          /\ \A n \in DOMAIN calls[i].resp.res.items :
                calls[i].resp.res.items[n] = SaveResult(TRUE)

\* C17: an insert that the provider answered without an error and with
\* every record saved, for one record or for an array of records, resolves
\* with the provider's save result.
C17_InsertResolvesWhenAllSaved ==
    \A i \in DOMAIN calls :
        (calls[i].op = "insert" /\ SavedAll(i))
        => calls[i].result = resolve(Pending, calls[i].resp.res)

\* Activation k started after a login for u issued by the caller had
\* connected and returned.
StartedAfterLogin(k, u) ==
    \E i \in calls'[k].doneBefore :
        /\ calls[i].op = "login"
        /\ calls[i].cred # Undefined
        /\ calls[i].cred.username = u
        /\ calls[i].result.state = "fulfilled"

\* C16: once a session is stored under "con:"+A, no step of an operation
\* running for another username (a login for it, or a describe, query or
\* mutation under it) and no step of any operation started after login(A)
\* completed changes or removes the entry; a login(A) that starts then
\* returns the stored handle at once, without a connect request.
C16_SessionSurvivesOtherLogins ==
    [][ \A u \in Usernames : hasCache(UserKey(u)) =>
          \A k \in DOMAIN calls' : Stepped(k) =>
             /\ ( \/ calls'[k].cred = Undefined
                  \/ calls'[k].cred.username # u
                  \/ StartedAfterLogin(k, u) )
                => /\ hasCacheAfter(UserKey(u))
                   /\ getCacheAfter(UserKey(u)) = getCache(UserKey(u))
             /\ ( /\ k \notin DOMAIN calls
                  /\ calls'[k].op = "login"
                  /\ calls'[k].cred # Undefined
                  /\ calls'[k].cred.username = u )
                => /\ calls'[k].connects = 0
                   /\ Len(conns') = Len(conns)
                   /\ calls'[k].pc = "done"
                   /\ calls'[k].result = resolve(Pending, getCache(UserKey(u)))
      ]_vars

\* After login(a) returned, a login for b has connected and completed; then
\* login(a) was called again and returned the handle of the first login
\* with no connect request.
C16_Witness ==
    /\ Len(calls) = 3
    /\ calls[1].op = "login" /\ calls[2].op = "login" /\ calls[3].op = "login"
    /\ UsernameOf(1) = <<"a">> /\ UsernameOf(2) = <<"b">> /\ UsernameOf(3) = <<"a">>
    /\ calls[2].doneBefore = {1} /\ calls[3].doneBefore = {1, 2}
    /\ calls[1].connects = 1 /\ calls[2].connects = 1 /\ calls[3].connects = 0
    /\ Returned(3)
    /\ calls[3].result = calls[1].result
    /\ calls[3].conn # calls[2].conn

\* C18: no step of getLoginUrl, getAllObject, getAllFields, describeObject,
\* query, insert, update, upsert or delete changes the value under
\* "currentCredentials", whatever runs in between; the value changes only
\* in the step in which the caller calls login.
C18_OnlyLoginChangesCurrentCredentials ==
    [][ /\ \A k \in DOMAIN calls' :
             (Stepped(k) /\ calls'[k].op # "login")
             => /\ getCacheAfter(sCurrentCredentials) = getCache(sCurrentCredentials)
                /\ hasCacheAfter(sCurrentCredentials) <=> hasCache(sCurrentCredentials)
        /\ getCacheAfter(sCurrentCredentials) # getCache(sCurrentCredentials)
           => \E k \in DOMAIN calls' :
                 k \notin DOMAIN calls /\ calls'[k].op = "login"
      ]_vars

\* An operation other than login connected under one username and went on
\* while a login for another username, called in between, had made its
\* credential the current one.
C18_Witness ==
    \E i, j \in DOMAIN calls :
        /\ i < j
        /\ calls[i].op # "login" /\ calls[j].op = "login"
        /\ calls[i].connects = 1
        /\ calls[i].pc = "done"
        /\ i \notin calls[j].doneBefore
        /\ UsernameOf(i) # UsernameOf(j)
        /\ getCache(sCurrentCredentials) = calls[j].cred

\* The describe request of activation i and the session it was made on.
DescribeRequest(i) == calls[i].reqs[1]
DescribeSession(i) == conns[DescribeRequest(i).conn.ref]

\* C19: every entry under a describe key is what the provider handed to a
\* describe request that was made on a session whose user id is the one the
\* key ends in and, for "objectFields:" and "objectInfo:" keys, for the object
\* named in the key, whatever logins start while the operation runs.
C19_DescribeEntriesMatchTheirKey ==
    \A k \in DOMAIN cacheData :
        DescribeCacheKey(k) =>
           \E i \in DescribeCalls :
              /\ calls[i].reqs # <<>>
              /\ calls[i].resp # Undefined
              /\ DescribeSession(i).userInfo # Undefined
              /\ k = DescribeKey(calls[i], DescribeSession(i).userInfo.id)
              /\ DescribeRequest(i).arg = calls[i].objectName
              /\ DescribeRequest(i).kind =
                    IF k = sObjectList \o DescribeSession(i).userInfo.id
                    THEN "describeGlobal" ELSE "describe"
              /\ IF calls[i].resp.res = Undefined
                 THEN /\ calls[i].op = "describeObject"
                      /\ cacheData[k] = Undefined
                 ELSE /\ calls[i].resp.res =
                            IF calls[i].op = "getAllObject"
                            THEN DescribeGlobalResult(DescribeSession(i))
                            ELSE DescribeSObjectResult(DescribeSession(i),
                                                       DescribeRequest(i).arg)
                      /\ cacheData[k] = Described(calls[i], calls[i].resp.res)

\* A describe result is stored under the key of the user it was asked for,
\* and a login for another username started while that describe operation
\* was running and has made its credential the current one.
C19_Witness ==
    \E i \in DescribeCalls, j \in LoginCalls :
        /\ i < j
        /\ i \notin calls[j].doneBefore
        /\ UsernameOf(i) # UsernameOf(j)
        /\ calls[i].pc = "done"
        /\ calls[i].resp # Undefined /\ calls[i].resp.err = Null
        /\ hasCache(calls[i].key.s)
        /\ calls[i].key.s = DescribeKey(calls[i], UserIdOf(UsernameOf(i)))
        /\ getCache(sCurrentCredentials) = calls[j].cred

\* The endpoint of the Engine that activation i runs on.
EndpointOf(i) == engines[calls[i].eng].defaultLoginUrl

\* C20: after a login for u on the production Engine has connected and
\* returned, a login for u on the sandbox Engine issues no connect request
\* and returns a session that was established against the production
\* endpoint.
C20_SandboxLoginReturnsProductionSession ==
    \A i, j \in LoginCalls :
        ( /\ EndpointOf(i) = Str(sProductionUrl)
          /\ EndpointOf(j) = Str(sSandboxUrl)
          /\ UsernameOf(i) = UsernameOf(j)
          /\ calls[i].connects = 1
          /\ Returned(i)
          /\ i \in calls[j].doneBefore )
        => /\ calls[j].connects = 0
           /\ Returned(j)
           /\ conns[calls[j].result.value.ref].loginUrl = Str(sProductionUrl)

\* C10: after any sequence of setCache and deleteCache calls, for every key
\* hasCache is true exactly when the last operation on the key was a
\* setCache, getCache returns that value (undefined when the key was never
\* set or was deleted), and no operation fails.
C10_CacheIsAMap ==
    /\ ~lastCall.threw
    /\ lastCall.op = "hasCache" =>
          lastCall.result = [t |-> "boolean", b |-> lastOp[lastCall.key].op = "set"]
    /\ lastCall.op = "getCache" =>
          lastCall.result = IF lastOp[lastCall.key].op = "set"
                            THEN lastOp[lastCall.key].data
                            ELSE Undefined
====
